---- MODULE Spec2Model ----
(***************************************************************************)
(* The /chunk handler of the Thai NLP sidecar (thai-nlp-sidecar/main.py):  *)
(* greedy sentence packing under a token budget with a backward overlap    *)
(* scan, wrapped in a catch-all that degrades to the whole document.       *)
(*                                                                         *)
(* Strings are sequences of one-character strings.  The two PyThaiNLP      *)
(* functions are external: sent_tok is the list the sentence segmenter     *)
(* returns for req.text and word_tok gives, for each stripped sentence,    *)
(* the length of the token list the word tokenizer returns for it (the     *)
(* same text always gets the same count).  Either call may raise instead.  *)
(***************************************************************************)
EXTENDS Integers, Sequences, FiniteSets

VARIABLES
    text,                 \* req.text
    max_tokens,           \* req.max_tokens
    overlap,              \* req.overlap
    sent_tok,             \* what sent_tok(req.text) returns when it returns
    word_tok,             \* stripped sentence -> len(word_tok(sentence, ...))
    pc,                   \* "start", "loop" (the for loop), "returned"
    sentences,            \* local: sentences
    pos,                  \* position of the for loop in sentences
    chunks,               \* local: chunks, the joined texts flushed so far
    current_sentences,    \* local: current_sentences
    current_token_count,  \* local: current_token_count
    response,             \* the ChunkResponse returned (chunks, count)
    raised,               \* which call raised: "none", "segmenter", "tokenizer", "recount"
    chunk_members,        \* history: for each flushed chunk, the positions of its sentences
    current_members,      \* history: the positions of the sentences in current_sentences
    visited               \* history: the positions the for loop has taken, in order

vars == <<text, max_tokens, overlap, sent_tok, word_tok, pc, sentences, pos, chunks,
          current_sentences, current_token_count, response, raised,
          chunk_members, current_members, visited>>

----------------------------------------------------------------------------
\* Bounds of the exhaustively enumerated requests.
MaxSents == 3
MaxTok == 3
MaxBudget == 3
MaxOverlap == 3
\* Length of the longest document of the documented example scenarios.
ScenarioSents == 10

----------------------------------------------------------------------------
\* Strings

Space == " "

RECURSIVE LStrip(_)
LStrip(s) == IF s # <<>> /\ Head(s) = Space THEN LStrip(Tail(s)) ELSE s

RECURSIVE RStrip(_)
RStrip(s) ==
    IF s # <<>> /\ s[Len(s)] = Space THEN RStrip(SubSeq(s, 1, Len(s) - 1)) ELSE s

\* sent.strip()
Strip(s) == RStrip(LStrip(s))

RECURSIVE Concat(_)
Concat(ss) == IF ss = <<>> THEN <<>> ELSE Head(ss) \o Concat(Tail(ss))

\* " ".join(strs)
RECURSIVE Join(_)
Join(strs) ==
    IF strs = <<>> THEN <<>>
    ELSE IF Len(strs) = 1 THEN Head(strs)
    ELSE Head(strs) \o <<Space>> \o Join(Tail(strs))

\* The last n elements of a list.
Suffix(s, n) == SubSeq(s, Len(s) - n + 1, Len(s))

----------------------------------------------------------------------------
\* Requests

RawSentences == { <<" ">>, <<"a">>, <<" ", "a", " ">>, <<"b">> }

Texts == { Strip(r) : r \in RawSentences } \ { <<>> }

SeqsUpTo(S, n) == UNION { [1..k -> S] : k \in 0..n }

\* The document a segmentation comes from: the sentences back to back; a
\* document in which the segmenter finds nothing is a blank one.
DocumentOf(ss) == IF ss = <<>> THEN <<Space>> ELSE Concat(ss)

\* Every request within the bounds.
InitSmall ==
    /\ sent_tok \in SeqsUpTo(RawSentences, MaxSents)
    /\ word_tok \in [Texts -> 0..MaxTok]
    /\ max_tokens \in 1..MaxBudget
    /\ overlap \in 0..MaxOverlap

\* The documented example scenarios: documents of 40-token sentences,
\* max_tokens = 100, overlap 0 or 40.
ScenarioDoc(n) == [i \in 1..n |-> IF i % 2 = 1 THEN <<"a">> ELSE <<"b">>]

InitScenario ==
    /\ sent_tok \in { ScenarioDoc(n) : n \in 1..ScenarioSents }
    /\ word_tok = [t \in Texts |-> 40]
    /\ max_tokens = 100
    /\ overlap \in {0, 40}

NoResponse == [chunks |-> <<>>, count |-> -1]

Init ==
    /\ (InitSmall \/ InitScenario)
    /\ text = DocumentOf(sent_tok)
    /\ pc = "start"
    /\ sentences = <<>>
    /\ pos = 0
    /\ chunks = <<>>
    /\ current_sentences = <<>>
    /\ current_token_count = 0
    /\ response = NoResponse
    /\ raised = "none"
    /\ chunk_members = <<>>
    /\ current_members = <<>>
    /\ visited = <<>>

----------------------------------------------------------------------------
\* The pieces of chunk()

\* len(word_tok(s, engine="newmm", keep_whitespace=False))
TokenCount(s) == word_tok[s]

\* The flush test without "and current_sentences".
FlushNeededIgnoringBuffer(count, sent_token_count, buffer) ==
    count + sent_token_count > max_tokens

\* The flush test made only once the buffer already exceeds the budget.
FlushNeededAfterExceeding(count, sent_token_count, buffer) ==
    count > max_tokens /\ buffer # <<>>

\* The flush test: current_token_count + sent_token_count > req.max_tokens
\* and current_sentences
FlushNeeded(count, sent_token_count, buffer) ==
    count + sent_token_count > max_tokens /\ buffer # <<>>

\* The scan with the test after the insert: the sentence that crosses the
\* overlap is kept too.
RECURSIVE OverlapScanOvershoot(_, _, _)
OverlapScanOvershoot(buffer, kept, count) ==
    IF kept = Len(buffer)
    THEN [kept |-> kept, count |-> count]
    ELSE LET s_tc == TokenCount(buffer[Len(buffer) - kept])
         IN  IF count + s_tc > overlap
             THEN [kept |-> kept + 1, count |-> count + s_tc]
             ELSE OverlapScanOvershoot(buffer, kept + 1, count + s_tc)

\* The scan with >= in place of >.
RECURSIVE OverlapScanStrict(_, _, _)
OverlapScanStrict(buffer, kept, count) ==
    IF kept = Len(buffer)
    THEN [kept |-> kept, count |-> count]
    ELSE LET s_tc == TokenCount(buffer[Len(buffer) - kept])
         IN  IF count + s_tc >= overlap
             THEN [kept |-> kept, count |-> count]
             ELSE OverlapScanStrict(buffer, kept + 1, count + s_tc)

\* The backward scan "for s in reversed(current_sentences)": kept is the
\* number of sentences already inserted into overlap_sents and count is
\* overlap_count.  The result is the final (len(overlap_sents), overlap_count).
RECURSIVE OverlapScan(_, _, _)
OverlapScan(buffer, kept, count) ==
    IF kept = Len(buffer)
    THEN [kept |-> kept, count |-> count]
    ELSE LET s_tc == TokenCount(buffer[Len(buffer) - kept])
         IN  IF count + s_tc > overlap
             THEN [kept |-> kept, count |-> count]
             ELSE OverlapScan(buffer, kept + 1, count + s_tc)

\* The flush without "current_token_count = overlap_count": the running
\* total keeps counting the flushed sentences.
OverlapKeepStaleCount(buffer) ==
    IF overlap > 0
    THEN [kept |-> OverlapScan(buffer, 0, 0).kept, count |-> current_token_count]
    ELSE [kept |-> 0, count |-> 0]

\* What a flush leaves of the buffer: how many trailing sentences stay and
\* their token total (both 0 when req.overlap is 0).
OverlapKeep(buffer) ==
    IF overlap > 0
    THEN OverlapScan(buffer, 0, 0)
    ELSE [kept |-> 0, count |-> 0]

\* The last flush forgotten.
NeverFlushRemaining(buffer) == FALSE

\* "if current_sentences:" before the last flush.
FlushRemaining(buffer) == buffer # <<>>

\* The normal return.
Assembled(chs) == [chunks |-> chs, count |-> Len(chs)]

\* The early return on "not sentences".
WholeDocument == [chunks |-> <<text>>, count |-> 1]

\* The except branch keeping the chunks flushed before the raise.
ExceptResponseKeepsPartial(partial) ==
    [chunks |-> Append(partial, text), count |-> Len(partial) + 1]

\* The except branch; partial is the chunks list at the time of the raise.
ExceptResponse(partial) == [chunks |-> <<text>>, count |-> 1]

----------------------------------------------------------------------------
\* Actions

Loc == <<sentences, pos, chunks, current_sentences, current_token_count,
         chunk_members, current_members, visited>>
Req == <<text, max_tokens, overlap, sent_tok, word_tok>>

\* sent_tok(req.text) raises.
SegmentRaises ==
    /\ pc = "start"
    /\ raised' = "segmenter"
    /\ response' = ExceptResponse(chunks)
    /\ pc' = "returned"
    /\ UNCHANGED <<Req, Loc>>

\* sent_tok(req.text) returns an empty list: the early return.
SegmentEmpty ==
    /\ pc = "start"
    /\ sent_tok = <<>>
    /\ sentences' = sent_tok
    /\ response' = WholeDocument
    /\ pc' = "returned"
    /\ UNCHANGED <<Req, raised, pos, chunks, current_sentences, current_token_count,
                   chunk_members, current_members, visited>>

\* sent_tok(req.text) returns sentences: the locals are set up and the loop starts.
Segment ==
    /\ pc = "start"
    /\ sent_tok # <<>>
    /\ sentences' = sent_tok
    /\ chunks' = <<>>
    /\ current_sentences' = <<>>
    /\ current_token_count' = 0
    /\ pos' = 1
    /\ pc' = "loop"
    /\ UNCHANGED <<Req, response, raised, chunk_members, current_members, visited>>

InLoop == pc = "loop" /\ pos <= Len(sentences)

\* One iteration on a sentence that is blank after strip(): continue.
SkipBlank ==
    /\ InLoop
    /\ Strip(sentences[pos]) = <<>>
    /\ pos' = pos + 1
    /\ visited' = Append(visited, pos)
    /\ UNCHANGED <<Req, pc, sentences, chunks, current_sentences, current_token_count,
                   response, raised, chunk_members, current_members>>

\* One iteration in which word_tok(sent) raises.
CountRaises ==
    /\ InLoop
    /\ Strip(sentences[pos]) # <<>>
    /\ raised' = "tokenizer"
    /\ response' = ExceptResponse(chunks)
    /\ pc' = "returned"
    /\ visited' = Append(visited, pos)
    /\ UNCHANGED <<Req, sentences, pos, chunks, current_sentences, current_token_count,
                   chunk_members, current_members>>

\* One iteration without a flush: the sentence joins the buffer.
AppendSentence ==
    /\ InLoop
    /\ LET sent == Strip(sentences[pos])
       IN  /\ sent # <<>>
           /\ ~FlushNeeded(current_token_count, TokenCount(sent), current_sentences)
           /\ current_sentences' = Append(current_sentences, sent)
           /\ current_token_count' = current_token_count + TokenCount(sent)
           /\ current_members' = Append(current_members, pos)
    /\ pos' = pos + 1
    /\ visited' = Append(visited, pos)
    /\ UNCHANGED <<Req, pc, sentences, chunks, response, raised, chunk_members>>

\* One iteration with a flush: the buffer is emitted, the overlap scan picks
\* what stays, and the sentence joins what stays.
FlushAndAppend ==
    /\ InLoop
    /\ LET sent == Strip(sentences[pos])
           keep == OverlapKeep(current_sentences)
       IN  /\ sent # <<>>
           /\ FlushNeeded(current_token_count, TokenCount(sent), current_sentences)
           /\ chunks' = Append(chunks, Join(current_sentences))
           /\ chunk_members' = Append(chunk_members, current_members)
           /\ current_sentences' =
                  Append(Suffix(current_sentences, keep.kept), sent)
           /\ current_token_count' = keep.count + TokenCount(sent)
           /\ current_members' = Append(Suffix(current_members, keep.kept), pos)
    /\ pos' = pos + 1
    /\ visited' = Append(visited, pos)
    /\ UNCHANGED <<Req, pc, sentences, response, raised>>

\* One iteration with a flush in which a recount of the overlap scan raises:
\* the chunk was already appended to chunks when the scan started.
RecountRaises ==
    /\ InLoop
    /\ LET sent == Strip(sentences[pos])
       IN  /\ sent # <<>>
           /\ FlushNeeded(current_token_count, TokenCount(sent), current_sentences)
    /\ overlap > 0
    /\ chunks' = Append(chunks, Join(current_sentences))
    /\ chunk_members' = Append(chunk_members, current_members)
    /\ raised' = "recount"
    /\ response' = ExceptResponse(chunks')
    /\ pc' = "returned"
    /\ visited' = Append(visited, pos)
    /\ UNCHANGED <<Req, sentences, pos, current_sentences, current_token_count,
                   current_members>>

\* The loop is over: flush what remains and return.
Finish ==
    /\ pc = "loop"
    /\ pos > Len(sentences)
    /\ IF FlushRemaining(current_sentences)
       THEN /\ chunks' = Append(chunks, Join(current_sentences))
            /\ chunk_members' = Append(chunk_members, current_members)
       ELSE UNCHANGED <<chunks, chunk_members>>
    /\ response' = Assembled(chunks')
    /\ pc' = "returned"
    /\ UNCHANGED <<Req, sentences, pos, current_sentences, current_token_count,
                   raised, current_members, visited>>

Next ==
    \/ SegmentRaises
    \/ SegmentEmpty
    \/ Segment
    \/ SkipBlank
    \/ CountRaises
    \/ AppendSentence
    \/ FlushAndAppend
    \/ RecountRaises
    \/ Finish

Spec == Init /\ [][Next]_vars

----------------------------------------------------------------------------
\* Vocabulary of the properties

Min(a, b) == IF a < b THEN a ELSE b

\* The positions of the segmenter's non-blank sentences, in order.
NonBlankPositions ==
    LET F[i \in 0..Len(sent_tok)] ==
            IF i = 0 THEN <<>>
            ELSE IF Strip(sent_tok[i]) # <<>> THEN Append(F[i - 1], i) ELSE F[i - 1]
    IN  F[Len(sent_tok)]

\* The trimmed sentence at a position and its token count.
TextAt(i) == Strip(sent_tok[i])
TokensAt(i) == word_tok[TextAt(i)]

TextsOf(members) == [j \in 1..Len(members) |-> TextAt(members[j])]

RECURSIVE TotalTokens(_)
TotalTokens(members) ==
    IF members = <<>> THEN 0 ELSE TokensAt(Head(members)) + TotalTokens(Tail(members))

Range(s) == { s[j] : j \in 1..Len(s) }

\* The length of the leading run of next that is also the tail of prev
\* (sentence occurrences, identified by position).
Shared(prev, next) ==
    CHOOSE n \in 0..Min(Len(prev), Len(next)) :
        /\ SubSeq(next, 1, n) = Suffix(prev, n)
        /\ \A m \in (n + 1)..Min(Len(prev), Len(next)) :
               SubSeq(next, 1, m) # Suffix(prev, m)

\* The leading run of chunk k shared with chunk k - 1 (nothing for the first).
Carried(k) == IF k = 1 THEN 0 ELSE Shared(chunk_members[k - 1], chunk_members[k])

\* Chunk k without its carried prefix.
OwnPart(k) == SubSeq(chunk_members[k], Carried(k) + 1, Len(chunk_members[k]))

RECURSIVE OwnParts(_)
OwnParts(k) == IF k = 0 THEN <<>> ELSE OwnParts(k - 1) \o OwnPart(k)

\* The longest suffix of a chunk whose token total is within the overlap,
\* stated without reference to the scan.
LongestSuffixWithin(members) ==
    CHOOSE n \in 0..Len(members) :
        /\ TotalTokens(Suffix(members, n)) <= overlap
        /\ \A m \in (n + 1)..Len(members) : TotalTokens(Suffix(members, m)) > overlap

IsPrefix(p, s) == Len(p) <= Len(s) /\ SubSeq(s, 1, Len(p)) = p

\* chunk() returned from its last statement: nothing raised and the
\* segmenter's list was not empty.
ReturnedAssembled == pc = "returned" /\ raised = "none" /\ sentences # <<>>

\* chunk() returned and nothing raised.
ReturnedQuietly == pc = "returned" /\ raised = "none"

\* The returned chunk texts are the joined sentences of the recorded members.
ResponseMatchesMembers ==
    /\ response.count = Len(chunk_members)
    /\ Len(response.chunks) = Len(chunk_members)
    /\ \A k \in 1..Len(chunk_members) :
           response.chunks[k] = Join(TextsOf(chunk_members[k]))

\* The request is example scenario 2 or 3: 10 sentences of 40 tokens,
\* max_tokens = 100.
IsScenario(ov) ==
    /\ Len(sent_tok) = 10
    /\ Len(NonBlankPositions) = 10
    /\ \A i \in 1..10 : TokensAt(i) = 40
    /\ max_tokens = 100
    /\ overlap = ov

----------------------------------------------------------------------------
\* C1 (Budget).  When nothing fails and every non-blank sentence has at
\* most max_tokens tokens, every returned chunk has at most max_tokens
\* tokens, carried overlap sentences included.
C1_Budget ==
    (/\ ReturnedAssembled
     /\ \A j \in 1..Len(NonBlankPositions) : TokensAt(NonBlankPositions[j]) <= max_tokens)
    => /\ ResponseMatchesMembers
       /\ \A k \in 1..Len(chunk_members) : TotalTokens(chunk_members[k]) <= max_tokens

\* C2 (Degradation).  When the segmenter or the tokenizer raises anywhere,
\* the call returns (raises nothing) exactly one chunk equal to the original
\* document with count 1; chunks flushed before are not in the result.
C2_Degradation ==
    raised # "none" =>
        /\ pc = "returned"
        /\ response.count = 1
        /\ response.chunks = <<text>>

\* A recount raised after two chunks had been flushed, neither of them the document.
C2_Witness ==
    /\ raised = "recount"
    /\ pc = "returned"
    /\ Len(chunks) >= 2
    /\ \A k \in 1..Len(chunks) : chunks[k] # text

\* C3 (Blank segmentation).  When the segmenter returns and its list holds no
\* usable sentence (empty, or every element blank after trimming), the call
\* returns exactly one chunk equal to the raw document, with count 1.
C3_BlankSegmentation ==
    (ReturnedQuietly /\ NonBlankPositions = <<>>)
    => (response.count = 1 /\ response.chunks = <<text>>)

\* C4 (Coverage).  When nothing fails, the first chunk's sentences followed
\* by every later chunk's sentences after its carried prefix are exactly the
\* segmenter's non-blank trimmed sentences, each once and in order.
C4_Coverage ==
    ReturnedAssembled =>
        /\ ResponseMatchesMembers
        /\ OwnParts(Len(chunk_members)) = NonBlankPositions
        /\ TextsOf(OwnParts(Len(chunk_members)))
               = [j \in 1..Len(NonBlankPositions) |-> Strip(sentences[NonBlankPositions[j]])]

\* Three chunks with a carried prefix, from a list with a blank element.
C4_Witness ==
    /\ ReturnedAssembled
    /\ Len(chunk_members) >= 2
    /\ \E k \in 2..Len(chunk_members) : Carried(k) > 0
    /\ Len(NonBlankPositions) < Len(sentences)

\* C5 (Overlap bound).  For every chunk after the first, the leading run of
\* sentences that were at the tail of the previous chunk has at most overlap
\* tokens; with overlap = 0 consecutive chunks share no sentence occurrence.
C5_OverlapBound ==
    \A k \in 2..Len(chunk_members) :
        /\ TotalTokens(SubSeq(chunk_members[k], 1, Carried(k))) <= overlap
        /\ overlap = 0 =>
               Range(chunk_members[k - 1]) \cap Range(chunk_members[k]) = {}

\* A returned chunk whose carried run uses the overlap up exactly, and a
\* longer tail of the previous chunk would not have fitted.
C5_Witness ==
    /\ ReturnedAssembled
    /\ \E k \in 2..Len(chunk_members) :
           /\ Carried(k) > 0
           /\ TotalTokens(SubSeq(chunk_members[k], 1, Carried(k))) = overlap
           /\ Carried(k) < Len(chunk_members[k - 1])

\* C6 (Oversized sentence).  A non-blank sentence with more than max_tokens
\* tokens is the only sentence of every chunk that contains it.
C6_OversizedAlone ==
    ReturnedAssembled =>
        \A k \in 1..Len(chunk_members) :
            \A i \in Range(chunk_members[k]) :
                TokensAt(i) > max_tokens => chunk_members[k] = <<i>>

\* C7 (Example scenario 2) as written: 10 sentences of 40 tokens,
\* max_tokens = 100, overlap = 0 give 4 chunks of 2 or 3 sentences, each of
\* at most 100 tokens, consecutive chunks sharing no sentence.
C7_ScenarioTwoAsWritten ==
    (ReturnedAssembled /\ IsScenario(0)) =>
        /\ response.count = 4
        /\ Len(response.chunks) = 4
        /\ \A k \in 1..Len(chunk_members) :
               /\ Len(chunk_members[k]) \in {2, 3}
               /\ TotalTokens(chunk_members[k]) <= 100
        /\ \A k \in 2..Len(chunk_members) :
               Range(chunk_members[k - 1]) \cap Range(chunk_members[k]) = {}

\* C7 amended: the same request gives 5 chunks of exactly 2 sentences
\* (80 tokens) each, consecutive chunks sharing no sentence.
C7_ScenarioTwo ==
    (ReturnedAssembled /\ IsScenario(0)) =>
        /\ ResponseMatchesMembers
        /\ response.count = 5
        /\ Len(response.chunks) = 5
        /\ \A k \in 1..Len(chunk_members) :
               /\ Len(chunk_members[k]) = 2
               /\ TotalTokens(chunk_members[k]) = 80
               /\ TotalTokens(chunk_members[k]) <= 100
        /\ \A k \in 2..Len(chunk_members) :
               Range(chunk_members[k - 1]) \cap Range(chunk_members[k]) = {}

C7_Witness == ReturnedAssembled /\ IsScenario(0) /\ response.count = 5

\* C8 (Overlap-selection result).  At every flush with overlap > 0 the
\* sentences that seed the next chunk are the longest suffix of the flushed
\* buffer, in order, whose token total is within the overlap, and the running
\* total is that suffix's sum (plus the sentence appended after it); with
\* 40-token sentences, max_tokens = 100 and overlap = 40 every chunk after the
\* first begins with exactly the last sentence of the previous chunk.
C8_OverlapSelection ==
    /\ \A k \in 2..Len(chunk_members) :
           overlap > 0 => Carried(k) = LongestSuffixWithin(chunk_members[k - 1])
    /\ (pc = "loop" /\ chunk_members # <<>> /\ overlap > 0) =>
           LET last == chunk_members[Len(chunk_members)]
           IN  Shared(last, current_members) = LongestSuffixWithin(last)
    /\ pc = "loop" =>
           /\ current_sentences = TextsOf(current_members)
           /\ current_token_count = TotalTokens(current_members)
    /\ (Len(sent_tok) >= 1 /\ \A i \in 1..Len(sent_tok) : TextAt(i) # <<>> /\ TokensAt(i) = 40)
       /\ max_tokens = 100 /\ overlap = 40 =>
           \A k \in 2..Len(chunk_members) :
               /\ Carried(k) = 1
               /\ chunk_members[k][1] = chunk_members[k - 1][Len(chunk_members[k - 1])]
               /\ Len(chunk_members[k]) >= 2 =>
                      chunk_members[k][2] \notin Range(chunk_members[k - 1])

\* Example scenario 3 returned: 9 chunks, each after the first seeded with one
\* of the two sentences of the chunk before it.
C8_Witness ==
    /\ ReturnedAssembled
    /\ IsScenario(40)
    /\ Len(response.chunks) = 9
    /\ \A k \in 2..Len(chunk_members) :
           Carried(k) = 1 /\ Len(chunk_members[k - 1]) = 2

\* C9 (Large overlap) as written: with overlap >= max_tokens every flush
\* carries the whole flushed chunk into the next chunk.
C9_LargeOverlapAsWritten ==
    overlap >= max_tokens =>
        \A k \in 2..Len(chunk_members) :
            IsPrefix(chunk_members[k - 1], chunk_members[k])

\* C9 amended: with overlap >= max_tokens a flush carries the whole flushed
\* chunk into the next chunk exactly when that chunk's token total is within
\* the overlap.
C9_LargeOverlap ==
    overlap >= max_tokens =>
        /\ \A k \in 2..Len(chunk_members) :
               IsPrefix(chunk_members[k - 1], chunk_members[k])
                   <=> TotalTokens(chunk_members[k - 1]) <= overlap
        /\ (pc = "loop" /\ chunk_members # <<>>) =>
               LET last == chunk_members[Len(chunk_members)]
               IN  IsPrefix(last, current_members) <=> TotalTokens(last) <= overlap

\* With overlap >= max_tokens, a two-sentence chunk was carried whole.
C9_Witness ==
    /\ ReturnedAssembled
    /\ overlap >= max_tokens
    /\ \E k \in 2..Len(chunk_members) :
           /\ Len(chunk_members[k - 1]) >= 2
           /\ IsPrefix(chunk_members[k - 1], chunk_members[k])

\* The positions visited so far that hold a non-blank sentence.
NonBlankVisited == SelectSeq(visited, LAMBDA i : Strip(sentences[i]) # <<>>)

\* C10 (Progress and termination).  The call never stops short of returning,
\* the loop takes each segmented sentence exactly once and in order, every
\* flush is followed at once by the append of the sentence being processed,
\* which is in no emitted chunk, so no emitted chunk is empty, every chunk
\* ends with a sentence that is in no earlier chunk, and there are at most as
\* many chunks as non-blank sentences.
C10_Progress ==
    /\ pc = "returned" \/ ENABLED Next
    /\ pc = "loop" =>
           /\ pos \in 1..(Len(sentences) + 1)
           /\ visited = [j \in 1..(pos - 1) |-> j]
           /\ Len(chunk_members) + (IF current_members = <<>> THEN 0 ELSE 1)
                  <= Len(NonBlankVisited)
           /\ current_members # <<>> =>
                  LET newest == current_members[Len(current_members)]
                  IN  /\ newest = NonBlankVisited[Len(NonBlankVisited)]
                      /\ \A k \in 1..Len(chunk_members) : newest \notin Range(chunk_members[k])
    /\ ReturnedAssembled =>
           /\ visited = [j \in 1..Len(sentences) |-> j]
           /\ Len(response.chunks) = Len(chunk_members)
           /\ Len(response.chunks) <= Len(NonBlankPositions)
    /\ \A k \in 1..Len(chunk_members) :
           /\ chunk_members[k] # <<>>
           /\ \A j \in 1..(k - 1) :
                  chunk_members[k][Len(chunk_members[k])] \notin Range(chunk_members[j])
    /\ Len(chunk_members) <= Len(NonBlankPositions)

\* A call with overlap >= max_tokens returned one chunk per non-blank sentence.
C10_Witness ==
    /\ ReturnedAssembled
    /\ overlap >= max_tokens
    /\ Len(NonBlankPositions) >= 3
    /\ Len(response.chunks) = Len(NonBlankPositions)

====
